---- MODULE Spec2Model ----
(***************************************************************************)
(* collectphotos.py: collect photos from source folders into a destination *)
(* tree sorted by EXIF capture date, deduplicated by SHA-256 checksum.     *)
(*                                                                         *)
(* Strings are modelled as sequences of tokens, so that formatting         *)
(* (f-strings), str.split and the regular expression of NoExifFolder are   *)
(* computed on their parts.  A path is [dir, name]: dir is the sequence of *)
(* its folder components and name the token sequence of the file name.     *)
(***************************************************************************)
EXTENDS Integers, Sequences, FiniteSets, TLC

(* ----------------------------- constants ------------------------------ *)

EXTENSIONS == {".jpg", ".jpeg", ".cr2", ".nef", ".dng"}
NO_EXIF_FOLDER == <<"no_exif">>
NO_EXIF_FILE_NB_DIGITS == 7

(* ------------------------------- bounds ------------------------------- *)

\* number of files found under the source folder
MaxFiles == 2
\* number of distinct file contents
NContents == 3
\* number of files already under the destination when the program starts
MaxPre == 1
\* highest sequence number of a file already in the no_exif folder
MaxPreNb == 2
\* number of I/O errors the environment raises in one run
MaxFaults == 1

(* ------------------------------ strings ------------------------------- *)

DigitChars == <<"0", "1", "2", "3", "4", "5", "6", "7", "8", "9">>

IsDigit(tok) == \E i \in 1..10 : DigitChars[i] = tok

DigitVal(tok) == (CHOOSE i \in 1..10 : DigitChars[i] = tok) - 1

\* str.lower() on the suffixes the model uses
Lower(tok) ==
    CASE tok = ".JPG" -> ".jpg"
      [] tok = ".CR2" -> ".cr2"
      [] OTHER -> tok

RECURSIVE Digits(_)
\* the decimal digits of n, most significant first
Digits(n) == IF n < 10 THEN <<DigitChars[n + 1]>>
             ELSE Append(Digits(n \div 10), DigitChars[(n % 10) + 1])

RECURSIVE ZeroPad(_, _)
\* format spec 0{w}: left-pad with zeros up to width w, never truncate
ZeroPad(s, w) == IF Len(s) >= w THEN s ELSE ZeroPad(<<"0">> \o s, w)

RECURSIVE ToInt(_)
\* int() of a string of digits
ToInt(s) == IF s = <<>> THEN 0
            ELSE 10 * ToInt(SubSeq(s, 1, Len(s) - 1)) + DigitVal(s[Len(s)])

RECURSIVE Split(_, _)
\* str.split(sep): the parts of s between the occurrences of sep
Split(s, sep) ==
    IF \A i \in 1..Len(s) : s[i] # sep THEN <<s>>
    ELSE LET i == CHOOSE j \in 1..Len(s) :
                      s[j] = sep /\ \A k \in 1..(j - 1) : s[k] # sep
         IN  <<SubSeq(s, 1, i - 1)>> \o Split(SubSeq(s, i + 1, Len(s)), sep)

(* ------------------------- paths and files ---------------------------- *)

\* the folders given on the command line (--source, --dest)
SOURCE_FOLDERS == <<<<<<"srcA">>>>, <<<<"srcB">>>>>>
DEST_FOLDER == <<<<"dest">>>>

\* pathlib: folder / component, and folder / file name
Sub(folder, comp) == Append(folder, comp)
PathOf(folder, name) == [dir |-> folder, name |-> name]

\* Path.suffix and Path.name of the model's file names
Suffix(path) == path.name[Len(path.name)]

\* hashlib.sha256(bytes).hexdigest(): distinct contents, distinct digests
Sha256(content) == <<"sha256", content>>

\* a key of the checksums dict: source files and the files of the no_exif
\* scan are Path objects, full_dest is a str; the two never compare equal
PathKey(path) == [kind |-> "Path", p |-> path]
StrKey(path) == [kind |-> "str", p |-> path]

\* faulty variant: the existence test always answers no
ExistsNever(t, path) == FALSE

\* Path(full_dest).exists()
Exists(t, path) == path \in DOMAIN t.files

\* raise inside the handling of one file
Raise(t, e) == [t EXCEPT !.err = e]

\* an injected I/O error (permission denied, file vanished), raised once
RaiseFault(t, e) == [t EXCEPT !.err = e, !.fault = "none", !.budget = @ - 1]

(* --------------------------- CheckSumManager -------------------------- *)

\* CheckSumManager.process(file)
Process(t, k) ==
    IF k \in DOMAIN t.checksums THEN t
    ELSE IF k.p \notin DOMAIN t.files THEN Raise(t, "FileNotFoundError")
    ELSE IF t.fault = "hash" THEN RaiseFault(t, "PermissionError")
    ELSE [t EXCEPT !.checksums = @ @@ (k :> Sha256(t.files[k.p].content)),
                   !.reads = Append(@, k)]

\* the count of CheckSumManager.is_unique, once process(file) has run
CountSame(checksums, k) ==
    Cardinality({j \in DOMAIN checksums : checksums[j] = checksums[k]})

\* faulty variant: the count is compared with 0, so no file is ever unique
IsUniqueNever(checksums, k) == CountSame(checksums, k) = 0

\* the value CheckSumManager.is_unique returns, once process(file) has run
IsUnique(checksums, k) == CountSame(checksums, k) = 1

(* ----------------------------- NoExifFolder --------------------------- *)

\* re.match(r"(\d{7})\.(jpg|jpeg)", file.name, re.IGNORECASE)
ReMatch(name) ==
    /\ Len(name) > NO_EXIF_FILE_NB_DIGITS
    /\ \A i \in 1..NO_EXIF_FILE_NB_DIGITS : IsDigit(name[i])
    /\ Lower(name[NO_EXIF_FILE_NB_DIGITS + 1]) \in {".jpg", ".jpeg"}

\* int(result.group(1))
Group1(name) == ToInt(SubSeq(name, 1, NO_EXIF_FILE_NB_DIGITS))

NoExifDest(dest) == Sub(dest, NO_EXIF_FOLDER)

\* faulty variant: the loop keeps the highest number but fingerprints no file
ScanNoFingerprint(t, entries) ==
    LET nbs == {Group1(f.name) : f \in {e \in entries : ReMatch(e.name)}}
    IN  [t EXCEPT !.last_file_nb =
            IF nbs = {} THEN 0 ELSE CHOOSE n \in nbs : \A m \in nbs : m <= n]

RECURSIVE Scan(_, _)
\* the loop of NoExifFolder.__init__ over the entries rglob yields
Scan(t, entries) ==
    IF entries = {} \/ t.err # "" THEN t
    ELSE LET file == CHOOSE f \in entries : TRUE
             nb == IF ReMatch(file.name)
                   THEN (IF Group1(file.name) > t.last_file_nb
                         THEN Group1(file.name) ELSE t.last_file_nb)
                   ELSE t.last_file_nb
         IN  Scan(Process([t EXCEPT !.last_file_nb = nb], PathKey(file)),
                  entries \ {file})

\* NoExifFolder.__init__(dest, check_sum_manager)
NoExifFolderInit(t, dest) ==
    Scan([t EXCEPT !.last_file_nb = 0],
         {f \in DOMAIN t.files : /\ Len(f.dir) >= Len(NoExifDest(dest))
                                 /\ SubSeq(f.dir, 1, Len(NoExifDest(dest)))
                                        = NoExifDest(dest)})

\* the name NoExifFolder.get_next_file_name returns
NextFileName(nb) == ZeroPad(Digits(nb), NO_EXIF_FILE_NB_DIGITS)

\* faulty variant: the counter is read but not incremented
GetNextFileNameNoIncrement(t) ==
    [t EXCEPT !.issued = Append(@, NextFileName(t.last_file_nb + 1))]

\* NoExifFolder.get_next_file_name(): the tools after the call; the name
\* returned is the last one of t.issued
GetNextFileName(t) ==
    [t EXCEPT !.last_file_nb = @ + 1,
              !.issued = Append(@, NextFileName(t.last_file_nb + 1))]

(* ----------------------------- process_file --------------------------- *)

NoDate == [no_date |-> TRUE, dest |-> <<>>, filename |-> <<>>]

ZERO_NAME == <<"0000", "-", "00", "-", "00", "_", "00", "-", "00", "-", "00">>

\* faulty variant: the folder is named after the year and the day
DateDirYearDay(ymd) == ymd[1] \o <<"-">> \o ymd[3]

\* f"{yyyy}-{mm}": the name of the folder of a dated photo
DateDir(ymd) == ymd[1] \o <<"-">> \o ymd[2]

\* f"{yyyy}-{mm}-{dd}_{hh}-{mi}-{ss}": the file name of a dated photo
DateFileName(ymd, hms) ==
    ymd[1] \o <<"-">> \o ymd[2] \o <<"-">> \o ymd[3] \o <<"_">>
           \o hms[1] \o <<"-">> \o hms[2] \o <<"-">> \o hms[3]

\* faulty variant: the all-zero date is taken for a date
DatePlanZeroIsDate(exif, dest_folder) ==
    IF ~exif.has THEN NoDate
    ELSE LET parts == Split(exif.value, " ")
         IN  IF Len(parts) # 2 THEN NoDate
             ELSE LET ymd == Split(parts[1], ":")
                      hms == Split(parts[2], ":")
                  IN  IF Len(ymd) # 3 \/ Len(hms) # 3 THEN NoDate
                      ELSE [no_date |-> FALSE,
                            dest |-> Sub(dest_folder, DateDir(ymd)),
                            filename |-> DateFileName(ymd, hms)]

\* the try block of process_file: where the EXIF date sends the file.
\* exif.has is FALSE when tags has no "EXIF DateTimeOriginal" (KeyError); a
\* tuple unpacking of the wrong length and the all-zero date are ValueErrors
DatePlan(exif, dest_folder) ==
    IF ~exif.has THEN NoDate
    ELSE LET parts == Split(exif.value, " ")
         IN  IF Len(parts) # 2 THEN NoDate
             ELSE LET ymd == Split(parts[1], ":")
                      hms == Split(parts[2], ":")
                  IN  IF Len(ymd) # 3 \/ Len(hms) # 3 THEN NoDate
                      ELSE IF DateFileName(ymd, hms) = ZERO_NAME THEN NoDate
                      ELSE [no_date |-> FALSE,
                            dest |-> Sub(dest_folder, DateDir(ymd)),
                            filename |-> DateFileName(ymd, hms)]

\* faulty variant: the duplicate is counted but the source is never removed
DuplicateKeepsFile(t, src, rm) ==
    [t EXCEPT !.counts.duplicate = @ + 1, !.outcome = "duplicate"]

\* the duplicate branch of process_file and of operate_file: the counter
\* is incremented before os.unlink(src) is called
Duplicate(t, src, rm) ==
    LET t1 == [t EXCEPT !.counts.duplicate = @ + 1, !.outcome = "duplicate"]
    IN  IF ~rm THEN t1
        ELSE IF src \notin DOMAIN t1.files THEN Raise(t1, "FileNotFoundError")
        ELSE IF t1.fault = "unlink" THEN RaiseFault(t1, "PermissionError")
        ELSE [t1 EXCEPT !.files = [q \in (DOMAIN @) \ {src} |-> @[q]],
                        !.removed = @ \cup {src}]

(* ----------------------------- operate_file --------------------------- *)

\* faulty variant: the suffix is one more than the index
FullDestOffByOne(dest, index, suffix) ==
    [dir |-> dest.dir,
     name |-> dest.name \o (IF index = 0 THEN <<>> ELSE <<"_">> \o Digits(index + 1))
                        \o <<suffix>>]

\* full_dest = f"{dest}{str_index}{suffix}"
FullDest(dest, index, suffix) ==
    [dir |-> dest.dir,
     name |-> dest.name \o (IF index = 0 THEN <<>> ELSE <<"_">> \o Digits(index))
                        \o <<suffix>>]

\* dest.parent.mkdir(parents=True, exist_ok=True)
Mkdir(t, dir) ==
    [t EXCEPT !.dirs = @ \cup {SubSeq(dir, 1, n) : n \in 1..Len(dir)}]

\* one call of shutil.copy2, shutil.move or os.link
Primitive(t, src, full_dest, operator) ==
    LET call == [src |-> src, dst |-> full_dest,
                 existed |-> full_dest \in DOMAIN t.files]
        t1 == [t EXCEPT !.calls = Append(@, call)]
    IN  IF src \notin DOMAIN t.files \/ full_dest.dir \notin t.dirs
        THEN Raise(t1, "FileNotFoundError")
        ELSE IF t.fault = "transfer" THEN RaiseFault(t1, "PermissionError")
        ELSE IF operator = "ln" /\ full_dest \in DOMAIN t.files
        THEN Raise(t1, "FileExistsError")
        ELSE LET keep == IF operator = "mv" THEN (DOMAIN t.files) \ {src}
                         ELSE DOMAIN t.files
             IN  [t1 EXCEPT !.files = [q \in keep \cup {full_dest} |->
                                          IF q = full_dest THEN t.files[src]
                                          ELSE t.files[q]],
                            !.placed = @ \cup {full_dest}]

\* the counter updated after a successful transfer
Collected(t, no_date) ==
    IF no_date
    THEN [t EXCEPT !.counts.no_date_collected = @ + 1, !.outcome = "transferred"]
    ELSE [t EXCEPT !.counts.total_collected = @ + 1, !.outcome = "transferred"]

\* the try / except FileNotFoundError of one operator branch of operate_file
Transfer(t, src, dest, full_dest, no_date, operator) ==
    LET a == Primitive(t, src, full_dest, operator)
    IN  IF a.err = "" THEN Collected(a, no_date)
        ELSE IF a.err # "FileNotFoundError" THEN a
        ELSE LET b == Primitive(Mkdir([a EXCEPT !.err = ""], dest.dir),
                                src, full_dest, operator)
             IN  IF b.err = "" THEN Collected(b, no_date) ELSE b

RECURSIVE OperateFile(_, _, _, _, _, _, _, _)
\* faulty variant: after a collision with another content the index grows
\* by two
OperateFileSkipsSuffix(t, src, dest, suffix, no_date, operator, rm, index) ==
    LET full_dest == FullDest(dest, index, suffix)
    IN  IF Exists(t, full_dest)
        THEN LET t1 == Process([t EXCEPT !.probes = Append(@, full_dest)],
                               StrKey(full_dest))
                 t2 == IF t1.err # "" THEN t1 ELSE Process(t1, PathKey(src))
             IN  IF t2.err # "" THEN t2
                 ELSE IF ~IsUnique(t2.checksums, PathKey(src))
                 THEN Duplicate(t2, src, rm)
                 ELSE OperateFile(t2, src, dest, suffix, no_date, operator, rm,
                                  index + 2)
        ELSE Transfer([t EXCEPT !.target = <<full_dest>>], src, dest, full_dest,
                      no_date, operator)

\* operate_file(src, dest, suffix, tools, no_date, operator, rm, index)
OperateFile(t, src, dest, suffix, no_date, operator, rm, index) ==
    LET full_dest == FullDest(dest, index, suffix)
    IN  IF Exists(t, full_dest)
        THEN LET t1 == Process([t EXCEPT !.probes = Append(@, full_dest)],
                               StrKey(full_dest))
                 t2 == IF t1.err # "" THEN t1 ELSE Process(t1, PathKey(src))
             IN  IF t2.err # "" THEN t2
                 ELSE IF ~IsUnique(t2.checksums, PathKey(src))
                 THEN Duplicate(t2, src, rm)
                 ELSE OperateFile(t2, src, dest, suffix, no_date, operator, rm,
                                  index + 1)
        ELSE Transfer([t EXCEPT !.target = <<full_dest>>], src, dest, full_dest,
                      no_date, operator)

\* process_file(file, dest_folder, tools, operator, rm); an OSError of
\* open(file, "rb") is none of the errors the except clause names
ProcessFile(t, file, dest_folder, operator, rm) ==
    IF file \notin DOMAIN t.files THEN Raise(t, "FileNotFoundError")
    ELSE IF t.fault = "open" THEN RaiseFault(t, "PermissionError")
    ELSE LET plan == DatePlan(t.files[file].exif, dest_folder)
         IN  IF ~plan.no_date
             THEN OperateFile([t EXCEPT !.no_date = FALSE, !.opened = TRUE],
                              file,
                              PathOf(plan.dest, plan.filename), Suffix(file),
                              FALSE, operator, rm, 0)
             ELSE LET t1 == Process([t EXCEPT !.no_date = TRUE,
                                              !.opened = TRUE], PathKey(file))
                  IN  IF t1.err # "" THEN t1
                      ELSE IF ~IsUnique(t1.checksums, PathKey(file))
                      THEN Duplicate(t1, file, rm)
                      ELSE LET t2 == GetNextFileName(t1)
                           IN  OperateFile(t2, file,
                                   PathOf(NoExifDest(dest_folder),
                                          t2.issued[Len(t2.issued)]),
                                   Suffix(file), TRUE, operator, rm, 0)

(* ------------------------------- state -------------------------------- *)

VARIABLES
    pc,            \* where the program is: start, tools, loop, done, exit
    status,        \* exit status of the process, -1 while it runs
    args,          \* the parsed command line
    files,         \* the file system: path -> [content, exif]
    dirs,          \* the folders that exist
    checksums,     \* CheckSumManager.checksums
    last_file_nb,  \* NoExifFolder.last_file_nb
    counts,        \* tools.counts
    todo,          \* the files the traversal has still to yield
    stderr,        \* the error messages printed
    summary,       \* the summary printed at the end of browse_sources
    placed,        \* history: the paths the transfer primitive created
    removed,       \* history: the source files os.unlink removed
    issued,        \* history: the names get_next_file_name returned
    reads,         \* history: the files read to compute a checksum
    budget,        \* number of I/O errors the environment may still raise
    last,          \* history: what the last iteration of the loop did
    run,           \* number of the current run of the program
    snap,          \* the file system when the current run started
    listing        \* the order in which the first traversal yielded the files

vars == <<pc, status, args, files, dirs, checksums, last_file_nb, counts, todo,
          stderr, summary, placed, removed, issued, reads, budget, last, run,
          snap, listing>>

Contents == 1..NContents

Operators == {"cp", "mv", "ln"}

ZeroCounts == [total_processed |-> 0, no_date_collected |-> 0,
               total_collected |-> 0, duplicate |-> 0]

NoSummary == [printed |-> FALSE, counts |-> ZeroCounts, nb_checksums |-> 0]

Idle == [file |-> <<>>, outcome |-> "none", target |-> <<>>, calls |-> <<>>,
         probes |-> <<>>, no_date |-> FALSE, nb_issued |-> 0, err |-> "",
         opened |-> FALSE]

(* the values of the EXIF DateTimeOriginal tag the model's files carry *)
NoTag == [has |-> FALSE, value |-> <<>>]
Tag(v) == [has |-> TRUE, value |-> v]
DateA == Tag(<<"2023", ":", "01", ":", "15", " ", "10", ":", "20", ":", "30">>)
DateB == Tag(<<"2024", ":", "05", ":", "01", " ", "10", ":", "00", ":", "00">>)
ZeroDate == Tag(<<"0000", ":", "00", ":", "00", " ", "00", ":", "00", ":", "00">>)
Exifs == {NoTag, ZeroDate, DateA, DateB}

\* values that do not split into a date and a time of three parts each
ShortDate == Tag(<<"2023", ":", "01", ":", "15">>)
LongDate == Tag(<<"2023", ":", "01", ":", "15", " ", "10", ":", "20", ":", "30",
                  ":", "00">>)

SrcStems == <<"a", "b", "c", "d">>
SrcSuffixes == {".jpg", ".CR2", ".txt"}

\* the folder the i-th source file lies in: the first file under the first
\* source folder, the others under the second
FolderOf(i) == IF i = 1 THEN SOURCE_FOLDERS[1] ELSE SOURCE_FOLDERS[2]

\* the files that may lie under the destination before the program starts:
\* dated names (plain and with suffix _1) and numbered names in no_exif
PrePaths ==
    {FullDest(PathOf(DatePlan(e, DEST_FOLDER).dest,
                     DatePlan(e, DEST_FOLDER).filename), i, x) :
        e \in {DateA, DateB}, i \in 0..1, x \in {".jpg"}}
    \cup {FullDest(PathOf(NoExifDest(DEST_FOLDER), NextFileName(n)), 0, x) :
            n \in 1..MaxPreNb, x \in {".jpg", ".CR2"}}

\* the tags exifread finds are read from the bytes of the file:
\* byte-identical photos carry the same tags
SameBytesSameTags(g) ==
    \A i, j \in DOMAIN g :
        g[i].suffix # ".txt" /\ g[j].suffix # ".txt"
        /\ g[i].content = g[j].content => g[i].exif = g[j].exif

\* the source files: n files; contents are interchangeable, so the i-th
\* file holds one of the contents 1..i; a file that is no photo is never
\* read, and the model gives it one content and no tag
SrcSpecs(n, exifs) ==
    {g \in [1..n -> [suffix : SrcSuffixes, content : Contents, exif : exifs]] :
        /\ SameBytesSameTags(g)
        /\ \A i \in 1..n :
               /\ g[i].content <= i
               /\ g[i].suffix = ".txt" => g[i].content = 1 /\ g[i].exif = NoTag}

\* the tags of the bytes c: those of a source photo made of these bytes, or
\* no tag when there is none
TagsOf(g, c) ==
    LET same == {i \in DOMAIN g : g[i].suffix # ".txt" /\ g[i].content = c}
    IN  IF same = {} THEN NoTag ELSE g[CHOOSE i \in same : TRUE].exif

SrcPath(i, x) == PathOf(FolderOf(i), <<SrcStems[i], x>>)

Folders == {SOURCE_FOLDERS[i] : i \in 1..Len(SOURCE_FOLDERS)} \cup {DEST_FOLDER}

\* is path p under folder d
Under(p, d) == Len(p.dir) >= Len(d) /\ SubSeq(p.dir, 1, Len(d)) = d

\* the file system with source files g and destination files h, where the
\* folders of the set missing do not exist
FileSystem(g, h, missing) ==
    LET src == {i \in DOMAIN g : FolderOf(i) \notin missing}
        pre == IF DEST_FOLDER \in missing THEN {} ELSE DOMAIN h
    IN  [p \in {SrcPath(i, g[i].suffix) : i \in src} \cup pre |->
            IF p \in pre THEN h[p]
            ELSE LET i == CHOOSE j \in src : SrcPath(j, g[j].suffix) = p
                 IN  [content |-> g[i].content, exif |-> g[i].exif]]

FoldersOf(fs, missing) ==
    (Folders \ missing) \cup {p.dir : p \in DOMAIN fs}

\* the orders in which a directory scan may yield the files of the set S
Orders(S) ==
    {f \in [1..Cardinality(S) -> S] :
        \A i, j \in 1..Cardinality(S) : f[i] = f[j] => i = j}

RECURSIVE Listings(_, _, _)
\* rglob("*") over the source folders, in the order of the command line:
\* the sequences of files the loops of browse_sources may traverse
Listings(fs, sources, i) ==
    IF i > Len(sources) THEN {<<>>}
    ELSE {o \o r : o \in Orders({p \in DOMAIN fs : Under(p, sources[i])}),
                   r \in Listings(fs, sources, i + 1)}

\* the program about to start with command line [operator o, rm r] on the
\* file systems FileSystem(g, h, m) for g in gs, m in missings and h over at
\* most maxPre of the paths pre; the environment raises at most b errors
InitWith(ops, rms, missings, gs, pre, maxPre, b) ==
    /\ pc = "start"
    /\ status = -1
    /\ \E o \in ops, r \in rms :
           args = [source |-> SOURCE_FOLDERS, dest |-> DEST_FOLDER,
                   operator |-> o, rm |-> r]
    /\ \E g \in gs, m \in missings,
          S \in {T \in SUBSET pre : Cardinality(T) <= maxPre} :
           \E c \in [S -> Contents] :
           \E h \in {[p \in S |-> [content |-> c[p],
                                   exif |-> TagsOf(g, c[p])]]} :
               /\ files = FileSystem(g, h, m)
               /\ dirs = FoldersOf(FileSystem(g, h, m), m)
               /\ snap = FileSystem(g, h, m)
    /\ checksums = <<>>
    /\ last_file_nb = 0
    /\ counts = ZeroCounts
    /\ todo = <<>>
    /\ stderr = <<>>
    /\ summary = NoSummary
    /\ placed = {}
    /\ removed = {}
    /\ issued = <<>>
    /\ reads = <<>>
    /\ budget = b
    /\ last = Idle
    /\ run = 1
    /\ listing = <<>>

\* every command line argparse accepts, over existing folders or with one
\* folder missing
Init == InitWith(Operators, BOOLEAN, {{}} \cup {{d} : d \in Folders},
                 SrcSpecs(MaxFiles, Exifs), PrePaths, MaxPre, MaxFaults)

(* ------------------------------ actions ------------------------------- *)

\* faulty variant: --rm is accepted with every operator
ParseOptionsNoRmCheck ==
    /\ pc = "start"
    /\ IF \E i \in 1..Len(args.source) : args.source[i] \notin dirs
       THEN /\ pc' = "exit" /\ status' = 1
            /\ stderr' = Append(stderr, <<"Error: Folder doesn't exist.", "source">>)
       ELSE IF args.dest \notin dirs
       THEN /\ pc' = "exit" /\ status' = 1
            /\ stderr' = Append(stderr, <<"Error: Folder doesn't exist.", "dest">>)
       ELSE /\ pc' = "tools" /\ status' = status /\ stderr' = stderr
    /\ UNCHANGED <<args, files, dirs, checksums, last_file_nb, counts, todo,
                   summary, placed, removed, issued, reads, budget, last, run,
                   snap, listing>>

\* parse_options(): the checks after parser.parse_args()
ParseOptions ==
    /\ pc = "start"
    /\ IF args.rm /\ args.operator # "mv"
       THEN /\ pc' = "exit" /\ status' = 1
            /\ stderr' = Append(stderr, <<"Error: The --rm option is only valid with the --operator mv">>)
       ELSE IF \E i \in 1..Len(args.source) : args.source[i] \notin dirs
       THEN /\ pc' = "exit" /\ status' = 1
            /\ stderr' = Append(stderr, <<"Error: Folder doesn't exist.", "source">>)
       ELSE IF args.dest \notin dirs
       THEN /\ pc' = "exit" /\ status' = 1
            /\ stderr' = Append(stderr, <<"Error: Folder doesn't exist.", "dest">>)
       ELSE /\ pc' = "tools" /\ status' = status /\ stderr' = stderr
    /\ UNCHANGED <<args, files, dirs, checksums, last_file_nb, counts, todo,
                   summary, placed, removed, issued, reads, budget, last, run,
                   snap, listing>>

\* a directory that did not change is scanned in the same order again: the
\* files of the sequence s that the sequence l holds come in the order of l
SameOrder(l, s) ==
    \A i, j \in 1..Len(s) :
        i < j => \A m, n \in 1..Len(l) : l[m] = s[i] /\ l[n] = s[j] => m < n

\* the tools record, as the operators above take it
Tools(fault) ==
    [files |-> files, dirs |-> dirs, checksums |-> checksums,
     last_file_nb |-> last_file_nb, counts |-> counts, placed |-> placed,
     removed |-> removed, issued |-> issued, reads |-> reads,
     budget |-> budget, fault |-> fault, err |-> "", outcome |-> "none",
     target |-> <<>>, calls |-> <<>>, probes |-> <<>>, no_date |-> FALSE,
     opened |-> FALSE]

\* browse_sources, up to the loop: the construction of the tools. An error
\* of open() while NoExifFolder.__init__ fingerprints the no_exif folder is
\* caught nowhere: the program ends with a traceback
BrowseStart ==
    /\ pc = "tools"
    /\ \E fault \in {"none", "hash"} :
         /\ fault # "none" => budget > 0
         /\ \E t \in {NoExifFolderInit([Tools(fault) EXCEPT !.checksums = <<>>],
                                        args.dest)} :
                /\ fault # "none" => t.fault = "none"
                /\ checksums' = t.checksums
                /\ last_file_nb' = t.last_file_nb
                /\ reads' = t.reads
                /\ budget' = t.budget
                /\ IF t.err # ""
                   THEN /\ pc' = "exit" /\ status' = 1
                        /\ stderr' = Append(stderr, <<"Traceback", t.err>>)
                        /\ todo' = todo /\ listing' = listing
                   ELSE /\ pc' = "loop" /\ status' = status /\ stderr' = stderr
                        /\ todo' \in Listings(files, args.source, 1)
                        /\ run > 1 => SameOrder(listing, todo')
                        /\ listing' = IF run = 1 THEN todo' ELSE listing
    /\ counts' = ZeroCounts
    /\ UNCHANGED <<args, files, dirs, summary, placed, removed, issued, last,
                   run, snap>>

Faults == {"none", "open", "hash", "transfer", "unlink"}

\* faulty variant: the handler catches FileNotFoundError only
CaughtFileNotFoundOnly(err) == err = "FileNotFoundError"

\* except Exception: the errors the handler of the loop catches
Caught(err) == err \in {"FileNotFoundError", "PermissionError", "FileExistsError"}

\* one iteration of the loop of browse_sources over a file of a wrong suffix
SkipFile ==
    /\ pc = "loop" /\ todo # <<>>
    /\ Lower(Suffix(Head(todo))) \notin EXTENSIONS
    /\ todo' = Tail(todo)
    /\ last' = [Idle EXCEPT !.file = <<Head(todo)>>, !.outcome = "skipped"]
    /\ UNCHANGED <<pc, status, args, files, dirs, checksums, last_file_nb,
                   counts, stderr, summary, placed, removed, issued, reads,
                   budget, run, snap, listing>>

\* one iteration of the loop of browse_sources over a photo: process_file
\* in its try / except Exception, then the count of processed files
LoopFile ==
    /\ pc = "loop" /\ todo # <<>>
    /\ Lower(Suffix(Head(todo))) \in EXTENSIONS
    /\ \E fault \in Faults :
         /\ fault # "none" => budget > 0
         /\ \E file \in {Head(todo)} :
            \E t \in {ProcessFile(Tools(fault), file, args.dest, args.operator,
                                  args.rm)} :
                /\ fault # "none" => t.fault = "none"
                /\ files' = t.files
                /\ dirs' = t.dirs
                /\ checksums' = t.checksums
                /\ last_file_nb' = t.last_file_nb
                /\ counts' = [t.counts EXCEPT !.total_processed = @ + 1]
                /\ placed' = t.placed
                /\ removed' = t.removed
                /\ issued' = t.issued
                /\ reads' = t.reads
                /\ budget' = t.budget
                /\ stderr' = IF t.err = "" THEN stderr
                             ELSE Append(stderr, file.name \o <<t.err>>)
                /\ last' = [file |-> <<file>>,
                            outcome |-> IF t.err = "" THEN t.outcome ELSE "error",
                            target |-> t.target, calls |-> t.calls,
                            probes |-> t.probes, no_date |-> t.no_date,
                            nb_issued |-> Len(t.issued) - Len(issued),
                            err |-> t.err, opened |-> t.opened]
                /\ IF t.err # "" /\ ~Caught(t.err)
                   THEN pc' = "exit" /\ status' = 1
                   ELSE pc' = pc /\ status' = status
    /\ todo' = Tail(todo)
    /\ UNCHANGED <<args, summary, run, snap, listing>>

\* the end of browse_sources: the summary, then the exit of the program
Summary ==
    /\ pc = "loop" /\ todo = <<>>
    /\ pc' = "done"
    /\ status' = 0
    /\ summary' = [printed |-> TRUE, counts |-> counts,
                   nb_checksums |-> Cardinality(DOMAIN checksums)]
    /\ UNCHANGED <<args, files, dirs, checksums, last_file_nb, counts, todo,
                   stderr, placed, removed, issued, reads, budget, last, run,
                   snap, listing>>

Next == ParseOptions \/ BrowseStart \/ SkipFile \/ LoopFile \/ Summary

Spec == Init /\ [][Next]_vars

\* the interpreter keeps executing the program: the state keeps changing
\* until the program has ended
Progress == []<><<TRUE>>_vars \/ <>[](pc \in {"done", "exit"})

SpecLive == Init /\ [][Next]_vars /\ Progress

(* ------------------------------ second run --------------------------- *)

\* number of source files, of files already under the destination and of
\* runs of the program in the specification of repeated runs
MaxRerunFiles == 3
MaxRerunPre == 2
MaxRuns == 2

RerunPrePaths ==
    {FullDest(PathOf(DatePlan(DateA, DEST_FOLDER).dest,
                     DatePlan(DateA, DEST_FOLDER).filename), i, ".jpg") :
        i \in 0..1}
    \cup {FullDest(PathOf(NoExifDest(DEST_FOLDER), NextFileName(1)), 0, ".jpg")}

\* copy runs without I/O error over photos whose tags are those of their
\* bytes
InitRerun ==
    InitWith({"cp"}, {FALSE}, {{}},
             SrcSpecs(MaxRerunFiles, {NoTag, DateA}),
             RerunPrePaths, MaxRerunPre, 0)

\* the user runs the program again with the same command line
Rerun ==
    /\ pc = "done"
    /\ run < MaxRuns
    /\ run' = run + 1
    /\ pc' = "start"
    /\ status' = -1
    /\ snap' = files
    /\ checksums' = <<>>
    /\ last_file_nb' = 0
    /\ counts' = ZeroCounts
    /\ stderr' = <<>>
    /\ summary' = NoSummary
    /\ placed' = {}
    /\ removed' = {}
    /\ issued' = <<>>
    /\ reads' = <<>>
    /\ last' = Idle
    /\ UNCHANGED <<args, files, dirs, todo, budget, listing>>

NextRerun == Next \/ Rerun

SpecRerun == InitRerun /\ [][NextRerun]_vars

(* ------------------- the destination as source folder ----------------- *)

\* number of files in the folder when the program starts
MaxInPlace == 2

\* the folder of the photos of January 2023 under the destination
Album == DatePlan(DateA, DEST_FOLDER).dest

\* the files that may lie in Album: photos under the name of the date DateA,
\* plain and with suffix _1, a photo under another name, and a text file
InPlacePaths ==
    {FullDest(PathOf(Album, DatePlan(DateA, DEST_FOLDER).filename), i, ".jpg") :
        i \in 0..1}
    \cup {PathOf(Album, <<"a", ".jpg">>), PathOf(Album, <<"n", ".txt">>)}

\* the program run with the destination folder as its only source folder
\* (-s dest -d dest): every file lies in Album, so the traversal scans one
\* folder that existed, with all its files, before the first file is
\* handled; the tags of a photo are those of its bytes
InitInPlace ==
    /\ pc = "start"
    /\ status = -1
    /\ \E o \in Operators, r \in BOOLEAN :
           args = [source |-> <<DEST_FOLDER>>, dest |-> DEST_FOLDER,
                   operator |-> o, rm |-> r]
    /\ \E S \in {T \in SUBSET InPlacePaths :
                    Cardinality(T) \in 1..MaxInPlace} :
       \E c \in [S -> Contents], e \in [Contents -> {NoTag, DateA}] :
       \E fs \in {[p \in S |->
                     [content |-> IF Suffix(p) = ".txt" THEN 1 ELSE c[p],
                      exif |-> IF Suffix(p) = ".txt" THEN NoTag ELSE e[c[p]]]]} :
           /\ files = fs
           /\ snap = fs
    /\ dirs = {DEST_FOLDER, Album}
    /\ checksums = <<>>
    /\ last_file_nb = 0
    /\ counts = ZeroCounts
    /\ todo = <<>>
    /\ stderr = <<>>
    /\ summary = NoSummary
    /\ placed = {}
    /\ removed = {}
    /\ issued = <<>>
    /\ reads = <<>>
    /\ budget = MaxFaults
    /\ last = Idle
    /\ run = 1
    /\ listing = <<>>

SpecInPlace == InitInPlace /\ [][Next]_vars

(* ------------------------------ properties ---------------------------- *)

DestFiles(fs) == {p \in DOMAIN fs : Under(p, DEST_FOLDER)}

\* the photos of the source folders when the run started
Eligible == {p \in DOMAIN snap : /\ ~Under(p, DEST_FOLDER)
                                 /\ Lower(Suffix(p)) \in EXTENSIONS}

\* the run met no error
NoError == stderr = <<>>

\* C1: for every operator, the transfer primitive is only called with a
\* destination path that does not exist at that moment, and no step changes
\* or removes a file that is under the destination: a path of the
\* destination that exists keeps its content for ever
C1_NeverOverwrites ==
    [][/\ \A i \in 1..Len(last'.calls) : ~last'.calls[i].existed
       /\ \A p \in DestFiles(files) :
              p \in DOMAIN files' /\ files'[p] = files[p]]_vars

\* a file was transferred to a suffixed name after a collision with a file
\* that was already under the destination
C1_Witness ==
    /\ last.outcome = "transferred"
    /\ last.probes # <<>>
    /\ \E i \in 1..Len(last.probes) : last.probes[i] \in DOMAIN snap
    /\ last.target[1] \in DOMAIN files

\* C2: at the end of a run without error, the content of every photo of
\* the source folders is under the destination; so are the contents of any
\* two photos with distinct contents, whatever the order of processing
C2_DistinctContentsKept ==
    pc = "done" /\ NoError =>
        \A f \in Eligible :
            \E p \in DestFiles(files) : files[p].content = snap[f].content

\* two photos with distinct contents and the same date were processed: the
\* second one collided with the first and was placed under a suffixed name
C2_Witness ==
    /\ pc = "done" /\ NoError
    /\ \E f1, f2 \in Eligible :
           /\ snap[f1].content # snap[f2].content
           /\ snap[f1].exif = snap[f2].exif
           /\ Suffix(f1) = Suffix(f2)
    /\ Cardinality(placed) = 2
    /\ last.probes # <<>>

Copies(fs, c) == {p \in DestFiles(fs) : fs[p].content = c}

\* C3: at the end of a run without error, when two photos of the source
\* folders are byte-identical (same content, hence same tags), whatever
\* their names and suffixes, and the destination did not hold that content
\* twice before the run, exactly one file under the destination holds it
C3_OneCopyOfIdenticalContent ==
    pc = "done" /\ NoError =>
        \A f1, f2 \in Eligible :
            /\ f1 # f2
            /\ snap[f1] = snap[f2]
            /\ Cardinality(Copies(snap, snap[f1].content)) <= 1
            => Cardinality(Copies(files, snap[f1].content)) = 1

\* C4: when a photo with a capture date has been placed under its date
\* folder and a byte-identical photo without a date is processed later in
\* the run, that photo is counted as a duplicate and placed nowhere
C4_UndatedTwinIsDuplicate ==
    /\ pc = "loop"
    /\ last.file # <<>>
    /\ last.no_date
    /\ last.err = ""
    /\ \E p \in placed :
           /\ ~Under(p, NoExifDest(DEST_FOLDER))
           /\ last.target # <<p>>
           /\ files[p].content = snap[last.file[1]].content
    => /\ last.outcome = "duplicate"
       /\ last.target = <<>>
       /\ counts.duplicate >= 1

\* C5: a second run in copy mode over the same sources and the destination
\* the first run left collects nothing: both counters of placed files are 0,
\* the file system is unchanged and every photo is counted as a duplicate
C5_SecondRunCollectsNothing ==
    run = 2 /\ pc = "done" =>
        /\ counts.total_collected = 0
        /\ counts.no_date_collected = 0
        /\ files = snap
        /\ counts.duplicate = Cardinality(Eligible)

\* the sequence numbers of the photos named NNNNNNN.jpg or NNNNNNN.jpeg that
\* lay in the no_exif folder when the run started, and the highest of them
PreNumbers ==
    {n \in 1..(MaxPreNb + 1) :
        \E x \in {".jpg", ".JPG", ".jpeg", ".JPEG"} :
            PathOf(NoExifDest(DEST_FOLDER), NextFileName(n) \o <<x>>)
                \in DOMAIN snap}

PreMax == IF PreNumbers = {} THEN 0
          ELSE CHOOSE n \in PreNumbers : \A m \in PreNumbers : m <= n

\* the identifier names no file the run placed
Unused(id) == \A p \in placed : SubSeq(p.name, 1, Len(id)) # id

\* C6: once the tools are built, the i-th identifier issued is the number
\* PreMax + i written with 7 digits, so the identifiers are strictly
\* increasing and never repeated, and the counter is PreMax plus the number
\* of identifiers issued, also when an identifier names no placed file; a
\* photo without date that is placed lies in no_exif under the identifier
\* issued for it
C6_SequenceContinues ==
    pc \in {"loop", "done"} =>
        /\ last_file_nb = PreMax + Len(issued)
        /\ \A i \in 1..Len(issued) :
               /\ Len(issued[i]) = 7
               /\ \A j \in 1..7 : IsDigit(issued[i][j])
               /\ ToInt(issued[i]) = PreMax + i
        /\ last.no_date /\ last.outcome = "transferred" =>
               /\ last.target[1].dir = <<<<"dest">>, <<"no_exif">>>>
               /\ last.nb_issued = 1
               /\ SubSeq(last.target[1].name, 1, 7) = issued[Len(issued)]

\* two identifiers were issued after a pre-existing numbered photo, and the
\* first one names no placed file because its transfer failed
C6_Witness ==
    /\ PreMax >= 1
    /\ Len(issued) = 2
    /\ Unused(issued[1])
    /\ ~Unused(issued[2])
    /\ last.outcome = "transferred"

\* the n-th candidate of the probing that started at path p
Candidate(p, n) ==
    [dir |-> p.dir,
     name |-> SubSeq(p.name, 1, Len(p.name) - 1)
                  \o (IF n = 0 THEN <<>> ELSE <<"_", DigitChars[n + 1]>>)
                  \o <<p.name[Len(p.name)]>>]

\* C7 as claimed: when the planned path exists and its content differs from
\* the content of the incoming photo, and no error occurs, the photo is
\* placed at the first free suffixed candidate
C7_PlacedWheneverPlannedDiffers ==
    /\ last.probes # <<>>
    /\ last.err = ""
    /\ files[last.probes[1]].content # snap[last.file[1]].content
    => /\ last.outcome = "transferred"
       /\ last.target = <<Candidate(last.probes[1], Len(last.probes))>>

\* C7 amended: when the planned path exists, no error occurs and the photo
\* is not classified as a duplicate (no file of the checksum index holds its
\* content), it is placed at {base}_k{ext} with k >= 1 the smallest n whose
\* candidate does not exist; every candidate below k existed with another
\* content and is left unchanged
C7_FirstFreeSuffix ==
    [][(/\ pc = "loop" /\ todo # <<>> /\ todo' = Tail(todo)
        /\ last'.probes # <<>>
        /\ last'.err = ""
        /\ last'.outcome # "duplicate")
       => LET src == last'.file[1]
              k == Len(last'.probes)
              c(n) == Candidate(last'.probes[1], n)
          IN  /\ last'.outcome = "transferred"
              /\ k >= 1
              /\ \A n \in 0..(k - 1) :
                     /\ last'.probes[n + 1] = c(n)
                     /\ c(n) \in DOMAIN files
                     /\ files[c(n)].content # files[src].content
                     /\ c(n) \in DOMAIN files' /\ files'[c(n)] = files[c(n)]
              /\ c(k) \notin DOMAIN files
              /\ last'.target = <<c(k)>>
              /\ c(k) \in DOMAIN files'
              /\ files'[c(k)] = files[src]]_vars

\* a photo was placed under suffix _2 after two collisions
C7_Witness ==
    /\ last.outcome = "transferred"
    /\ Len(last.probes) = 2
    /\ last.target = <<Candidate(last.probes[1], 2)>>
    /\ last.target[1] \in DOMAIN files

\* C8: a photo whose tag is a valid date other than the zero date, once
\* placed, lies in {dest}/{YYYY}-{MM} under the name
\* {YYYY}-{MM}-{DD}_{hh}-{mm}-{ss}, an optional suffix _n, then its own
\* suffix; it is never handled as undated and is issued no identifier
C8_DatedPlacement ==
    /\ last.file # <<>>
    /\ last.outcome # "skipped"
    /\ snap[last.file[1]].exif \in {DateA, DateB}
    => LET v == snap[last.file[1]].exif.value
           stamp == <<v[1], "-", v[3], "-", v[5], "_", v[7], "-", v[9], "-", v[11]>>
       IN  /\ ~last.no_date
           /\ last.nb_issued = 0
           /\ last.outcome = "transferred" =>
                  LET t == last.target[1]
                  IN  /\ t.dir = <<<<"dest">>, <<v[1], "-", v[3]>>>>
                      /\ SubSeq(t.name, 1, 11) = stamp
                      /\ t.name[Len(t.name)] = Suffix(last.file[1])
                      /\ \/ Len(t.name) = 12
                         \/ /\ Len(t.name) = 14
                            /\ t.name[12] = "_"
                            /\ IsDigit(t.name[13]) /\ t.name[13] # "0"
                      /\ t \in placed

\* a dated photo was placed under a suffixed name of its date folder
C8_Witness ==
    /\ last.file # <<>>
    /\ snap[last.file[1]].exif = DateB
    /\ last.outcome = "transferred"
    /\ Len(last.target[1].name) = 14

EligibleLeft == {i \in 1..Len(todo) : Lower(Suffix(todo[i])) \in EXTENSIONS}

\* C9: an error raised while a photo is processed is caught and reported
\* and the run goes on: the program does not exit, every photo still to
\* traverse is processed (the count of processed photos plus the photos
\* left is the number of photos), the run ends with the summary, and the
\* program exits early only before the traversal
C9_ErrorsDoNotAbort ==
    /\ last.outcome = "error" =>
           /\ pc \in {"loop", "done"}
           /\ status # 1
           /\ stderr # <<>>
           /\ stderr[Len(stderr)] = last.file[1].name \o <<last.err>>
    /\ pc = "loop" =>
           /\ counts.total_processed + Cardinality(EligibleLeft)
                  = Cardinality(Eligible)
    /\ pc = "done" =>
           /\ status = 0
           /\ summary.printed
           /\ summary.counts.total_processed = Cardinality(Eligible)
    /\ pc = "exit" => last = Idle

\* the first photo raised an error, the second one was placed and the
\* summary was printed
C9_Witness ==
    /\ pc = "done"
    /\ Len(stderr) = 1
    /\ last.outcome = "transferred"
    /\ summary.printed
    /\ summary.counts.total_processed = 2

\* the command line is invalid: --rm without --operator mv, or a folder
\* that does not exist
Invalid ==
    \/ args.rm /\ args.operator # "mv"
    \/ \E d \in Folders : d \notin dirs

SourceFiles(fs) == {p \in DOMAIN fs : ~Under(p, DEST_FOLDER)}

\* C10: with an invalid command line the program only exits, with status
\* 1 and a message, and nothing is fingerprinted, placed or deleted; and in
\* a run with operator cp or ln no source file is ever deleted
C10_InvalidOptionsFailFast ==
    /\ Invalid =>
           /\ pc \in {"start", "exit"}
           /\ pc = "exit" => status = 1 /\ stderr # <<>>
           /\ DOMAIN checksums = {}
           /\ reads = <<>>
           /\ placed = {} /\ removed = {}
           /\ files = snap
           /\ counts = ZeroCounts
    /\ args.operator \in {"cp", "ln"} =>
           /\ removed = {}
           /\ \A f \in SourceFiles(snap) : f \in DOMAIN files /\ files[f] = snap[f]

\* the program exited on --rm with operator cp, over a destination whose
\* no_exif folder holds a file and sources holding two identical photos
C10_Witness ==
    /\ pc = "exit" /\ status = 1
    /\ args.rm /\ args.operator = "cp"
    /\ \E p \in DOMAIN files : Under(p, NoExifDest(DEST_FOLDER))
    /\ \E f1, f2 \in Eligible : f1 # f2 /\ files[f1] = files[f2]

\* a step of the loop that handled an eligible file
Handled ==
    /\ pc = "loop" /\ todo # <<>> /\ todo' = Tail(todo)
    /\ last'.file # <<>> /\ last'.outcome # "skipped"

\* C11: a file that ends as a duplicate is not transferred: no transfer
\* primitive is called, no file is placed, the files under the destination
\* (the source apart) are the same with the same contents, the duplicate
\* counter grows by one
\* and the two counters of placed files keep their values; the source file
\* is removed when --rm is set and is left in place unchanged otherwise
C11_DuplicateFrame ==
    [][Handled /\ last'.outcome = "duplicate"
       => LET src == last'.file[1]
          IN  /\ last'.calls = <<>>
              /\ last'.target = <<>>
              /\ placed' = placed
              /\ DestFiles(files') \ {src} = DestFiles(files) \ {src}
              /\ \A q \in (DOMAIN files) \ {src} :
                     q \in DOMAIN files' /\ files'[q] = files[q]
              /\ counts'.duplicate = counts.duplicate + 1
              /\ counts'.total_collected = counts.total_collected
              /\ counts'.no_date_collected = counts.no_date_collected
              /\ args.rm => /\ src \notin DOMAIN files'
                            /\ removed' = removed \cup {src}
              /\ ~args.rm => /\ src \in DOMAIN files'
                             /\ files'[src] = files[src]
                             /\ removed' = removed]_vars

\* with --rm, a dated file that collided with a file of the same content
\* was counted as a duplicate and removed from its source folder
C11_Witness ==
    /\ last.outcome = "duplicate"
    /\ args.rm
    /\ last.probes # <<>>
    /\ last.file[1] \in removed
    /\ last.file[1] \notin DOMAIN files
    /\ counts.duplicate = 1

\* C12: when the planned path of a file exists and no error occurs, every
\* candidate probed is fingerprinted into the index under its content, the
\* source is fingerprinted too, and the file ends as a duplicate exactly
\* when a path of the index other than the source holds the digest of the
\* source; otherwise the probing went on to the next suffix, up to the
\* first candidate that does not exist
C12_DuplicateIffOtherIndexedPath ==
    [][Handled /\ last'.probes # <<>> /\ last'.err = ""
       => LET src == last'.file[1]
              idx == checksums'
              k == Len(last'.probes)
              others == {j \in DOMAIN idx :
                            j.p # src /\ idx[j] = idx[PathKey(src)]}
          IN  /\ PathKey(src) \in DOMAIN idx
              /\ idx[PathKey(src)] = Sha256(files[src].content)
              /\ \A i \in 1..k :
                     /\ last'.probes[i] = Candidate(last'.probes[1], i - 1)
                     /\ StrKey(last'.probes[i]) \in DOMAIN idx
                     /\ idx[StrKey(last'.probes[i])]
                            = Sha256(files[last'.probes[i]].content)
              /\ (last'.outcome = "duplicate") <=> (others # {})
              /\ last'.outcome # "duplicate" =>
                     last'.target = <<Candidate(last'.probes[1], k)>>]_vars

\* the files named after the sequence pattern that lay in the no_exif
\* folder when the run started
PreNumbered ==
    {p \in DOMAIN snap : Under(p, NoExifDest(DEST_FOLDER)) /\ ReMatch(p.name)}

\* C13: once the tools are built, every file of the no_exif folder named
\* after the sequence pattern is in the index under the digest of its
\* content; and a source file without date whose content is that of such a
\* file, handled without error, is a duplicate: it is issued no identifier
\* and placed nowhere
C13_NumberedFilesIndexed ==
    /\ pc \in {"loop", "done"} =>
           \A p \in PreNumbered :
               /\ PathKey(p) \in DOMAIN checksums
               /\ checksums[PathKey(p)] = Sha256(snap[p].content)
    /\ (/\ last.file # <<>>
        /\ last.no_date
        /\ last.err = ""
        /\ \E p \in PreNumbered :
               snap[p].content = snap[last.file[1]].content)
       => /\ last.outcome = "duplicate"
          /\ last.target = <<>>
          /\ last.calls = <<>>
          /\ last.nb_issued = 0

\* a photo without date with the content of no_exif/0000002.jpg was counted
\* as a duplicate
C13_Witness ==
    /\ last.file # <<>>
    /\ last.no_date
    /\ last.outcome = "duplicate"
    /\ counts.duplicate = 1
    /\ \E p \in PreNumbered :
           /\ Group1(p.name) = 2
           /\ snap[p].content = snap[last.file[1]].content

\* the numbers N of the files named N on 7 digits with a suffix of
\* EXTENSIONS that lay in the no_exif folder when the run started
PhotoNumbers ==
    {Group1(p.name) : p \in
        {q \in DOMAIN snap :
            /\ Under(q, NoExifDest(DEST_FOLDER))
            /\ Len(q.name) = NO_EXIF_FILE_NB_DIGITS + 1
            /\ \A i \in 1..NO_EXIF_FILE_NB_DIGITS : IsDigit(q.name[i])
            /\ Lower(Suffix(q)) \in EXTENSIONS}}

\* C14: the counter starts at the highest number of a file of the no_exif
\* folder named with 7 digits and a suffix of EXTENSIONS, or at 0 when
\* there is none: the counter is that number plus the number of
\* identifiers issued since
C14_CounterStartsAtMaxPhotoNumber ==
    pc \in {"loop", "done"} =>
        last_file_nb - Len(issued) =
            IF PhotoNumbers = {} THEN 0
            ELSE CHOOSE n \in PhotoNumbers : \A m \in PhotoNumbers : m <= n

\* C15: within a run no path is read twice to compute a digest, and the
\* index only grows: an entry of the index stays, with its digest, also
\* after its file was moved or deleted
C15_DigestOncePerPath ==
    [][run' = run
       => /\ \A i, j \in 1..Len(reads') :
                 i # j => reads'[i].p # reads'[j].p
          /\ \A k \in DOMAIN checksums :
                 k \in DOMAIN checksums' /\ checksums'[k] = checksums[k]]_vars

\* C16: the probing of a file ends: the candidates probed are the planned
\* path with the suffixes 0, 1, 2, ... in this order, each of them a file
\* that exists, so there are at most as many probes as files under the
\* destination, and the file ends as a duplicate, as transferred to the
\* next candidate, or with a reported error; and every run ends: with the
\* summary, or before the traversal on an invalid command line
C16_ProbingTerminates ==
    /\ [][Handled
          => LET k == Len(last'.probes)
             IN  /\ k <= Cardinality(DestFiles(files))
                 /\ \A i \in 1..k :
                        /\ last'.probes[i] = Candidate(last'.probes[1], i - 1)
                        /\ last'.probes[i] \in DOMAIN files
                 /\ last'.outcome \in {"duplicate", "transferred", "error"}
                 /\ last'.outcome = "transferred" /\ k > 0 =>
                        last'.target = <<Candidate(last'.probes[1], k)>>]_vars
    /\ <>(pc \in {"done", "exit"})
    /\ [](pc = "done" => summary.printed)
    /\ [](pc = "exit" => Invalid)

\* the run ended with the summary after a file was probed at the suffixes
\* 0 and 1 and transferred under the suffix 2
C16_Witness ==
    /\ pc = "done"
    /\ summary.printed
    /\ Len(last.probes) = 2
    /\ last.outcome = "transferred"
    /\ last.target[1] \in DOMAIN files

\* C19: a file is deleted by the run only when --rm is set and the file was
\* classified as a duplicate, and right after the deletion another file
\* holds the same content; no step leaves the disk without a content it held
C19_DeletesOnlyRedundantCopies ==
    [][/\ \A p \in removed' \ removed :
              /\ args.rm
              /\ last'.outcome = "duplicate"
              /\ last'.file = <<p>>
              /\ \E q \in DOMAIN files' :
                     q # p /\ files'[q].content = files[p].content
       /\ \A p \in (DOMAIN files) \ (DOMAIN files') :
              \E q \in DOMAIN files' : files'[q].content = files[p].content]_vars


(* ------------------ photos without a usable date ---------------------- *)

\* the tags of the photos: none, the all-zero date, a date without time, a
\* time of four parts, and a date
BadExifs == {NoTag, ZeroDate, ShortDate, LongDate, DateA}

InitDates ==
    InitWith(Operators, BOOLEAN, {{}} \cup {{d} : d \in Folders},
             SrcSpecs(MaxFiles, BadExifs), PrePaths, MaxPre, MaxFaults)

SpecDates == InitDates /\ [][Next]_vars

\* C17: a photo that was opened and whose tags give no usable date (no
\* tag, a value that does not split into six parts, the all-zero date) is
\* handled as a photo without date: its content is compared with the whole
\* checksum index, it is a duplicate when another indexed file holds its
\* content, and otherwise it is placed in no_exif under the next
\* identifier; without an I/O error of the environment no error is raised
C17_NoUsableDateIsUndated ==
    [][(/\ Handled
        /\ last'.opened
        /\ files[last'.file[1]].exif \in {NoTag, ZeroDate, ShortDate, LongDate})
       => LET src == last'.file[1]
              twins == {j \in DOMAIN checksums :
                           /\ j # PathKey(src)
                           /\ checksums[j] = Sha256(files[src].content)}
          IN  /\ last'.no_date
              /\ budget' = budget => last'.err = ""
              /\ last'.err = "" =>
                     /\ PathKey(src) \in DOMAIN checksums'
                     /\ IF twins # {}
                        THEN /\ last'.outcome = "duplicate"
                             /\ last'.nb_issued = 0
                             /\ last'.target = <<>>
                        ELSE /\ last'.outcome = "transferred"
                             /\ last'.nb_issued = 1
                             /\ issued'[Len(issued')]
                                    = NextFileName(last_file_nb + 1)
                             /\ last'.target[1].dir = NoExifDest(args.dest)
                             /\ SubSeq(last'.target[1].name, 1,
                                       NO_EXIF_FILE_NB_DIGITS)
                                    = issued'[Len(issued')]
                             /\ last'.target[1] \in DOMAIN files'
                             /\ files'[last'.target[1]].content
                                    = files[src].content]_vars

\* a photo whose tag holds the all-zero date or a value that does not
\* split into six parts was opened and placed in no_exif
C17_Witness ==
    /\ last.file # <<>>
    /\ last.opened /\ last.no_date
    /\ last.outcome = "transferred"
    /\ snap[last.file[1]].exif \in {ShortDate, LongDate, ZeroDate}
    /\ last.target[1].dir = NoExifDest(args.dest)


\* C18: when the transfer primitive fails although the folder of its
\* destination exists, the failure is reported, the primitive is not called
\* again for the file, and no counter changes: neither the count of
\* processed files nor the counts of placed photos and of duplicates
C18_FailedTransferUncounted ==
    [][(/\ Handled
        /\ last'.calls # <<>>
        /\ last'.err # "")
       => /\ Len(stderr') = Len(stderr) + 1
          /\ Len(last'.calls)
                 = (IF last'.calls[1].dst.dir \in dirs THEN 1 ELSE 2)
          /\ counts' = counts]_vars


\* the files counted as placed or as duplicates
Settled(c) == c.total_collected + c.no_date_collected + c.duplicate

\* C20: a photo handled by the loop adds exactly 1 to total_processed and
\* at most 1 to one of total_collected, no_date_collected and duplicate, a
\* file of another suffix changes no counter; so total_processed is at
\* least the sum of the three, at the end of the run the two are equal
\* exactly when no file raised an error, and total_collected plus
\* no_date_collected is the number of successful transfers
C20_CounterAccounting ==
    /\ [][pc = "loop" /\ todo # <<>> /\ todo' = Tail(todo) /\ last'.file # <<>>
          => IF last'.outcome = "skipped" THEN counts' = counts
             ELSE /\ counts'.total_processed = counts.total_processed + 1
                  /\ Settled(counts') - Settled(counts) \in {0, 1}
                  /\ counts'.total_collected >= counts.total_collected
                  /\ counts'.no_date_collected >= counts.no_date_collected
                  /\ counts'.duplicate >= counts.duplicate]_vars
    /\ [](counts.total_processed >= Settled(counts))
    /\ [](pc = "done" =>
             (counts.total_processed = Settled(counts) <=> stderr = <<>>))
    /\ [](counts.total_collected + counts.no_date_collected
             = Cardinality(placed))

====
